---------------------------- MODULE Spec2Model ----------------------------
(***************************************************************************)
(* Model of the Discord slowmode bot: the SlowmodeScheduler (rule index +  *)
(* APScheduler job store), the BotConfig persisted store, and the bot      *)
(* commands add_schedule / remove_schedule / test_slowmode and the         *)
(* on_ready handler.                                                       *)
(*                                                                         *)
(* Python strings that the code splits, parses or concatenates (time       *)
(* strings, the restore argument, rule identifiers, job ids) are modelled  *)
(* as sequences of one-character strings.  Weekday tags are atomic.        *)
(***************************************************************************)
EXTENDS Integers, Sequences, FiniteSets, TLC

(***************************************************************************)
(* Bounds of the model.                                                    *)
(***************************************************************************)
\* Spec: number of commands and handler runs, number of clock ticks
MaxCmds == 4

MaxTicks == 2

\* SpecClock: fewer commands, the clock runs for more than a week
ClockCmds == 2

ClockTicks == 16

\* SpecApi: number of direct calls of the scheduler's methods, clock ticks
ApiCalls == 3

ApiTicks == 2

\* SpecEdge: commands with edge-case arguments, and clock ticks
EdgeCmds == 2

EdgeTicks == 4

\* SpecStore: commands over a persisted store that holds disabled records
StoreCmds == 4

StoreTicks == 2

\* SpecId: commands whose arguments differ in one component of the identifier
IdCmds == 2

IdTicks == 2

\* SpecPending: direct calls of the scheduler's methods, and clock ticks
\* that callbacks may outlast
PendingCalls == 2

PendingTicks == 4

(***************************************************************************)
(* Python string helpers.                                                  *)
(***************************************************************************)
Digits == <<"0", "1", "2", "3", "4", "5", "6", "7", "8", "9">>

IsDigit(c) == \E i \in 1..10 : Digits[i] = c

DigitVal(c) == (CHOOSE i \in 1..10 : Digits[i] = c) - 1

\* str(n) for a non-negative int n
RECURSIVE IntToStr(_)
IntToStr(n) ==
    IF n < 10 THEN <<Digits[n + 1]>>
    ELSE Append(IntToStr(n \div 10), Digits[(n % 10) + 1])

\* s.split(sep) for a one-character separator: the list of the parts
RECURSIVE Split(_, _)
Split(s, sep) ==
    IF \A i \in 1..Len(s) : s[i] # sep THEN <<s>>
    ELSE LET k == CHOOSE i \in 1..Len(s) :
                     /\ s[i] = sep
                     /\ \A j \in 1..(i - 1) : s[j] # sep
         IN  <<SubSeq(s, 1, k - 1)>> \o Split(SubSeq(s, k + 1, Len(s)), sep)

\* value of a string of digits and underscores, read left to right
RECURSIVE DigitsValue(_)
DigitsValue(s) ==
    IF Len(s) = 0 THEN 0
    ELSE LET c == s[Len(s)]
             rest == SubSeq(s, 1, Len(s) - 1)
         IN  IF c = "_" THEN DigitsValue(rest)
             ELSE DigitsValue(rest) * 10 + DigitVal(c)

\* int(s): ok = FALSE stands for ValueError.  An optional sign, then
\* digits, single underscores allowed between digits.
PyInt(s) ==
    LET signed == Len(s) > 0 /\ s[1] \in {"+", "-"}
        body == IF signed THEN SubSeq(s, 2, Len(s)) ELSE s
        wellFormed ==
            /\ Len(body) > 0
            /\ \A i \in 1..Len(body) : IsDigit(body[i]) \/ body[i] = "_"
            /\ IsDigit(body[1])
            /\ IsDigit(body[Len(body)])
            /\ \A i \in 1..(Len(body) - 1) : ~(body[i] = "_" /\ body[i + 1] = "_")
    IN  IF ~wellFormed THEN [ok |-> FALSE, val |-> 0]
        ELSE [ok |-> TRUE,
              val |-> IF signed /\ s[1] = "-" THEN 0 - DigitsValue(body)
                      ELSE DigitsValue(body)]

\* s.startswith(prefix)
StartsWith(s, prefix) ==
    /\ Len(prefix) <= Len(s)
    /\ SubSeq(s, 1, Len(prefix)) = prefix


(***************************************************************************)
(* Weekday tags.                                                           *)
(***************************************************************************)
\* the list literal of scheduler.py:91 / bot_simple.py:146 / config.py:91
WeekDays == <<"mon", "tue", "wed", "thu", "fri", "sat", "sun">>

\* days=None of SlowmodeScheduler.add_schedule
NoDays == <<"<None>">>

\* the index in a list that starts the week on sunday
DayIndexSundayFirst(day) ==
    LET sundayFirst == <<"sun", "mon", "tue", "wed", "thu", "fri", "sat">>
    IN  IF \E i \in 1..7 : sundayFirst[i] = day
        THEN [ok |-> TRUE, val |-> (CHOOSE i \in 1..7 : sundayFirst[i] = day) - 1]
        ELSE [ok |-> FALSE, val |-> 0]

\* ['mon', ...].index(day); ok = FALSE stands for ValueError
DayIndex(day) ==
    IF \E i \in 1..7 : WeekDays[i] = day
    THEN [ok |-> TRUE, val |-> (CHOOSE i \in 1..7 : WeekDays[i] = day) - 1]
    ELSE [ok |-> FALSE, val |-> 0]

\* day.strip().lower() and days.lower() on the tokens the model feeds in
Strip(tok) == IF tok = " wed" THEN "wed" ELSE tok

Lower(tok) ==
    CASE tok = "Mon" -> "mon"
      [] tok = "ALL" -> "all"
      [] OTHER -> tok

\* the characters of a tag, for building identifiers
TagChars(tag) ==
    CASE tag = "mon" -> <<"m", "o", "n">>
      [] tag = "tue" -> <<"t", "u", "e">>
      [] tag = "wed" -> <<"w", "e", "d">>
      [] tag = "thu" -> <<"t", "h", "u">>
      [] tag = "fri" -> <<"f", "r", "i">>
      [] tag = "sat" -> <<"s", "a", "t">>
      [] tag = "sun" -> <<"s", "u", "n">>

\* Python's order on the seven tags (lexicographic string order)
TagRank(tag) ==
    LET alpha == <<"fri", "mon", "sat", "sun", "thu", "tue", "wed">>
    IN  CHOOSE i \in 1..7 : alpha[i] = tag

RECURSIVE InsertTag(_, _)
InsertTag(sorted, tag) ==
    IF Len(sorted) = 0 THEN <<tag>>
    ELSE IF TagRank(tag) < TagRank(sorted[1]) THEN <<tag>> \o sorted
    ELSE <<sorted[1]>> \o InsertTag(Tail(sorted), tag)

\* sorted(selected_days)
RECURSIVE SortedDays(_)
SortedDays(days) ==
    IF Len(days) = 0 THEN <<>>
    ELSE InsertTag(SortedDays(SubSeq(days, 1, Len(days) - 1)), days[Len(days)])

\* ",".join(tags)
RECURSIVE JoinDays(_)
JoinDays(days) ==
    IF Len(days) = 0 THEN <<>>
    ELSE IF Len(days) = 1 THEN TagChars(days[1])
    ELSE TagChars(days[1]) \o <<",">> \o JoinDays(Tail(days))

\* f"{ctx.guild.id}_{channel.id}_{start_time}_{end_time}_{days_str}"
ScheduleId(guild, channel, start_time, end_time, selected_days) ==
    IntToStr(guild) \o <<"_">> \o IntToStr(channel) \o <<"_">> \o start_time
        \o <<"_">> \o end_time \o <<"_">> \o JoinDays(SortedDays(selected_days))

\* f"{schedule_id}_start" and f"{schedule_id}_end"
StartJobId(schedule_id) == schedule_id \o <<"_", "s", "t", "a", "r", "t">>

EndJobId(schedule_id) == schedule_id \o <<"_", "e", "n", "d">>

(***************************************************************************)
(* Times of day.                                                           *)
(***************************************************************************)
\* map(int, t.split(':')) unpacked into two names: ok = FALSE stands for
\* the ValueError of int() or of the unpacking
ParseTime(t) ==
    LET parts == Split(t, ":")
    IN  IF Len(parts) # 2 THEN [ok |-> FALSE, hour |-> 0, minute |-> 0]
        ELSE LET h == PyInt(parts[1])
                 m == PyInt(parts[2])
             IN  IF h.ok /\ m.ok
                 THEN [ok |-> TRUE, hour |-> h.val, minute |-> m.val]
                 ELSE [ok |-> FALSE, hour |-> 0, minute |-> 0]

\* the range check with the upper ends off by one
TimeInRangeOffByOne(hour, minute) ==
    /\ 0 <= hour /\ hour <= 24
    /\ 0 <= minute /\ minute <= 60

\* 0 <= hour <= 23 and 0 <= minute <= 59
TimeInRange(hour, minute) ==
    /\ 0 <= hour /\ hour <= 23
    /\ 0 <= minute /\ minute <= 59

(***************************************************************************)
(* The wall clock (UTC).  The clock visits a weekly grid of instants: each *)
(* weekday 0..6 (monday = 0) at each time of day of GridTimes; `now` is    *)
(* the last grid instant reached.                                          *)
(***************************************************************************)
GridTimes == <<[hour |-> 9, minute |-> 0], [hour |-> 17, minute |-> 0]>>

SlotsPerDay == Len(GridTimes)

WeekLen == 7 * SlotsPerDay

Instants == 0..(WeekLen - 1)

Weekday(p) == p \div SlotsPerDay

TimeOfDay(p) == GridTimes[(p % SlotsPerDay) + 1]

\* CronTrigger(hour, minute, day_of_week, timezone=UTC) matches instant p
TriggerMatches(job, p) ==
    /\ Weekday(p) \in job.day_of_week
    /\ TimeOfDay(p).hour = job.hour
    /\ TimeOfDay(p).minute = job.minute

NoRunTime == 0 - 1

\* the trigger's next fire time after instant p (a week later at most)
NextRunTime(job, p) ==
    LET ds == {d \in 1..WeekLen : TriggerMatches(job, (p + d) % WeekLen)}
    IN  IF ds = {} THEN NoRunTime
        ELSE (p + (CHOOSE d \in ds : \A e \in ds : d <= e)) % WeekLen

(***************************************************************************)
(* SlowmodeScheduler: the rule index `schedules` (id -> rule) and the      *)
(* APScheduler job store `jobs` (job id -> job).  The operators below take *)
(* the two maps and return the maps after the call.                        *)
(***************************************************************************)
KnownTimezones == {"UTC"}

\* dict assignment d[k] = v
Put(d, k, v) == [x \in DOMAIN d \cup {k} |-> IF x = k THEN v ELSE d[x]]

\* del d[k]
Del(d, k) == [x \in DOMAIN d \ {k} |-> d[x]]

\* scheduler.add_job(..., id=key, replace_existing=...): ok = FALSE stands
\* for ConflictingIdError
AddJob(J, key, job, replace_existing) ==
    IF key \in DOMAIN J /\ ~replace_existing
    THEN [ok |-> FALSE, jobs |-> J]
    ELSE [ok |-> TRUE, jobs |-> Put(J, key, job)]

\* scheduler.remove_job(key): ok = FALSE stands for JobLookupError, raised
\* when the store holds no job of that id
RemoveJob(J, key) ==
    IF key \in DOMAIN J
    THEN [ok |-> TRUE, jobs |-> Del(J, key)]
    ELSE [ok |-> FALSE, jobs |-> J]

\* the value of replace_existing in both add_job calls
ReplaceExistingOff == FALSE

ReplaceExisting == TRUE

\* the job armed for one boundary of a rule
MakeJob(func, time, day_of_week, channel_id, value, p) ==
    LET trig == [hour |-> time.hour, minute |-> time.minute,
                 day_of_week |-> day_of_week]
    IN  [func |-> func,
         hour |-> time.hour,
         minute |-> time.minute,
         day_of_week |-> day_of_week,
         args |-> <<channel_id, value>>,
         next_run_time |-> NextRunTime(trig, p)]

\* the dict stored at self.schedules[schedule_id]
MakeRule(channel_id, start_time, end_time, slowmode_seconds, timezone, days, restore_seconds) ==
    [channel_id |-> channel_id,
     start_time |-> start_time,
     end_time |-> end_time,
     slowmode_seconds |-> slowmode_seconds,
     timezone |-> timezone,
     days |-> days,
     restore_seconds |-> restore_seconds]

\* SlowmodeScheduler.add_schedule(schedule_id, channel_id, start_time,
\* end_time, slowmode_seconds, timezone, days, restore_seconds) called at
\* clock instant p: the returned bool and the index and job store it leaves
SchedulerAddSchedule(S, J, p, schedule_id, channel_id, start_time, end_time, slowmode_seconds, timezone, days, restore_seconds) ==
    LET st == ParseTime(start_time)
        en == ParseTime(end_time)
        fail == [ok |-> FALSE, schedules |-> S, jobs |-> J]
        days1 == IF days = NoDays THEN WeekDays ELSE days
        \* line 80: the index is written before the day tags are converted
        S1 == Put(S, schedule_id,
                  MakeRule(channel_id, start_time, end_time, slowmode_seconds,
                           timezone, days1, restore_seconds))
        dow == {DayIndex(days1[i]).val : i \in 1..Len(days1)}
        a1 == AddJob(J, StartJobId(schedule_id),
                     MakeJob("_enable_slowmode", st, dow, channel_id,
                             slowmode_seconds, p), ReplaceExisting)
        a2 == AddJob(a1.jobs, EndJobId(schedule_id),
                     MakeJob("_restore_slowmode", en, dow, channel_id,
                             restore_seconds, p), ReplaceExisting)
    IN  IF ~(st.ok /\ en.ok) THEN fail
        ELSE IF ~TimeInRange(st.hour, st.minute) THEN fail
        ELSE IF ~TimeInRange(en.hour, en.minute) THEN fail
        ELSE IF timezone \notin KnownTimezones THEN fail
        ELSE IF \E i \in 1..Len(days1) : ~DayIndex(days1[i]).ok
             THEN [ok |-> FALSE, schedules |-> S1, jobs |-> J]
        ELSE IF ~a1.ok THEN [ok |-> FALSE, schedules |-> S1, jobs |-> J]
        ELSE IF ~a2.ok THEN [ok |-> FALSE, schedules |-> S1, jobs |-> a1.jobs]
        ELSE [ok |-> TRUE, schedules |-> S1, jobs |-> a2.jobs]

\* remove_schedule that disarms the start job only
SchedulerRemoveLeavesEndJob(S, J, schedule_id) ==
    IF schedule_id \notin DOMAIN S
    THEN [ok |-> FALSE, schedules |-> S, jobs |-> J]
    ELSE [ok |-> TRUE,
          schedules |-> Del(S, schedule_id),
          jobs |-> Del(J, StartJobId(schedule_id))]

\* remove_schedule whose job removals are not guarded one by one: an error
\* of remove_job reaches the outer handler, which returns False
SchedulerRemoveAbortsOnJobError(S, J, schedule_id) ==
    LET r1 == RemoveJob(J, StartJobId(schedule_id))
        r2 == RemoveJob(r1.jobs, EndJobId(schedule_id))
    IN  IF schedule_id \notin DOMAIN S
        THEN [ok |-> FALSE, schedules |-> S, jobs |-> J]
        ELSE IF ~r1.ok THEN [ok |-> FALSE, schedules |-> S, jobs |-> J]
        ELSE IF ~r2.ok THEN [ok |-> FALSE, schedules |-> S, jobs |-> r1.jobs]
        ELSE [ok |-> TRUE, schedules |-> Del(S, schedule_id), jobs |-> r2.jobs]

\* remove_schedule without the check of lines 146-148: an id that is not in
\* the index is reported as removed
SchedulerRemoveReportsAbsentRemoved(S, J, schedule_id) ==
    LET r1 == RemoveJob(J, StartJobId(schedule_id))
        r2 == RemoveJob(r1.jobs, EndJobId(schedule_id))
    IN  [ok |-> TRUE,
         schedules |-> [x \in DOMAIN S \ {schedule_id} |-> S[x]],
         jobs |-> r2.jobs]

\* SlowmodeScheduler.remove_schedule(schedule_id): the error of each
\* remove_job is caught and logged on its own (lines 154-162)
SchedulerRemoveSchedule(S, J, schedule_id) ==
    LET r1 == RemoveJob(J, StartJobId(schedule_id))
        r2 == RemoveJob(r1.jobs, EndJobId(schedule_id))
    IN  IF schedule_id \notin DOMAIN S
        THEN [ok |-> FALSE, schedules |-> S, jobs |-> J]
        ELSE [ok |-> TRUE, schedules |-> Del(S, schedule_id), jobs |-> r2.jobs]

\* get_guild_schedules matching on the guild id without the "_" separator
GetGuildSchedulesNoSeparator(S, guild_id) ==
    {id \in DOMAIN S : StartsWith(id, IntToStr(guild_id))}

\* SlowmodeScheduler.get_guild_schedules(guild_id): the ids it returns
GetGuildSchedules(S, guild_id) ==
    {id \in DOMAIN S : StartsWith(id, IntToStr(guild_id) \o <<"_">>)}

(***************************************************************************)
(* BotConfig: config_data["schedules"] of an instance, and the JSON file.  *)
(***************************************************************************)
ExampleId == <<"example_schedule">>

DefaultSlowmodeSeconds == 30

\* get_default_config()["schedules"].  The example's channel id,
\* 123456789012345678, is beyond the model checker's integers and is written
\* as its decimal text; the record is disabled, so no code reads the field.
DefaultSchedules ==
    [id \in {ExampleId} |->
        [channel_id |-> "123456789012345678",
         start_time |-> <<"0", "9", ":", "0", "0">>,
         end_time |-> <<"1", "7", ":", "0", "0">>,
         slowmode_seconds |-> DefaultSlowmodeSeconds,
         timezone |-> "UTC",
         enabled |-> FALSE]]

\* BotConfig.get_schedules(): the ids of the records that are not disabled
GetSchedules(data) == {id \in DOMAIN data : data[id].enabled}

\* BotConfig.add_schedule: the record written under schedule_id
ConfigRecord(channel_id, start_time, end_time, slowmode_seconds, timezone, days, restore_seconds) ==
    [channel_id |-> channel_id,
     start_time |-> start_time,
     end_time |-> end_time,
     slowmode_seconds |-> slowmode_seconds,
     timezone |-> timezone,
     days |-> days,
     restore_seconds |-> restore_seconds,
     enabled |-> TRUE]

\* BotConfig.remove_schedule applied to each id of a set
ConfigRemoveAll(data, ids) == [id \in DOMAIN data \ ids |-> data[id]]

(***************************************************************************)
(* The external platform: channels, their guilds, the slowmode limit.      *)
(***************************************************************************)
Channels == {5, 15}

GuildOf(channel) == IF channel = 5 THEN 1 ELSE 12

Guilds == {GuildOf(c) : c \in Channels}

\* "Discord max is 6 hours"
MaxSlowmode == 21600

(***************************************************************************)
(* State.                                                                  *)
(***************************************************************************)
VARIABLES
    schedules,   \* scheduler.schedules
    jobs,        \* the job store of scheduler.scheduler
    configData,  \* config.config_data["schedules"] of the module-level config
    file,        \* "schedules" of slowmode_config.json
    slowmode,    \* channel -> its live slowmode_delay
    now,         \* the clock: last grid instant reached
    inflight,    \* callbacks submitted by the clock whose external call is pending
    last,        \* the last command or handler run and its outcome
    lastFire,    \* the last callback run and its outcome
    act,         \* name of the last step taken
    cmdsLeft,    \* commands and handler runs the bound still allows
    ticksLeft,   \* clock ticks the bound still allows
    removedIds,  \* history: ids a removal has removed and no add has added since
    resolved,    \* history: id -> the live value read when the rule was added
                 \* with restore "current"
    awaiting,    \* history: ids whose activation callback has been invoked and
                 \* whose restore callback has not been since
    running      \* scheduler.scheduler has been started and not shut down

vars == <<schedules, jobs, configData, file, slowmode, now, inflight, last,
          lastFire, act, cmdsLeft, ticksLeft, removedIds, resolved, awaiting,
          running>>

Empty == [x \in {} |-> 0]

NoCmd == [op |-> "none"]

NoFire == [job_id |-> <<>>, outcome |-> "none", calls |-> 0]

\* the process has started for the first time (no config file yet: BotConfig
\* writes the defaults; on_ready finds no enabled record); it is sunday evening
InitWith(cmds, ticks) ==
    /\ schedules = Empty
    /\ jobs = Empty
    /\ configData = DefaultSchedules
    /\ file = DefaultSchedules
    /\ slowmode = [c \in Channels |-> 0]
    /\ now = WeekLen - 1
    /\ inflight = {}
    /\ last = NoCmd
    /\ lastFire = NoFire
    /\ act = "init"
    /\ cmdsLeft = cmds
    /\ ticksLeft = ticks
    /\ removedIds = {}
    /\ resolved = Empty
    /\ awaiting = {}
    /\ running = TRUE

Init == InitWith(MaxCmds, MaxTicks)

InitClock == InitWith(ClockCmds, ClockTicks)

InitApi == InitWith(ApiCalls, ApiTicks)

InitEdge == InitWith(EdgeCmds, EdgeTicks)

\* every command, handler run or direct call takes one unit of the bound
Budget ==
    /\ cmdsLeft > 0
    /\ cmdsLeft' = cmdsLeft - 1
    /\ ticksLeft' = ticksLeft

(***************************************************************************)
(* Command inputs.                                                         *)
(***************************************************************************)
T0900 == <<"0", "9", ":", "0", "0">>

T1700 == <<"1", "7", ":", "0", "0">>

T2400 == <<"2", "4", ":", "0", "0">>

T0960 == <<"0", "9", ":", "6", "0">>

TNoColon == <<"0", "9", "0", "0">>

Current == <<"c", "u", "r", "r", "e", "n", "t">>

\* the argument lists of !sm add_schedule that the model issues:
\* <<channel, start_time, end_time, slowmode_seconds, days, restore_seconds,
\*   outcome of reading channel.slowmode_delay>>
\* with days already split at the commas
AddInputs ==
    {<<5, T0900, T1700, DefaultSlowmodeSeconds, <<"mon", "wed">>, Current, "ok">>,
     <<5, T0900, T1700, MaxSlowmode + 1, <<" wed", "Mon">>, <<"5">>, "ok">>,
     <<5, T0900, T1700, DefaultSlowmodeSeconds, <<"tue">>, Current, "ok">>,
     <<15, T1700, T0900, DefaultSlowmodeSeconds, <<"ALL">>, <<"x">>, "ok">>,
     <<5, T0900, T2400, DefaultSlowmodeSeconds, <<"tue">>, Current, "ok">>,
     <<5, T0900, T1700, DefaultSlowmodeSeconds, <<"mon", "xyz">>, Current, "ok">>}

\* the argument lists of !sm remove_schedule: <<channel, start_time, end_time>>
RemoveInputs ==
    {<<5, T0900, T1700>>, <<15, T1700, T0900>>}

\* the argument lists of !sm test_slowmode: <<channel, slowmode_seconds>>
TestInputs == {<<5, 5>>, <<5, MaxSlowmode + 1>>}

(***************************************************************************)
(* bot_simple.add_schedule                                                 *)
(***************************************************************************)
\* lines 144-152: the selected days; ok = FALSE stands for the early return
SelectDays(days) ==
    IF Len(days) = 1 /\ Lower(days[1]) = "all"
    THEN [ok |-> TRUE, days |-> WeekDays]
    ELSE LET sel == [i \in 1..Len(days) |-> Lower(Strip(days[i]))]
         IN  [ok |-> \A i \in 1..Len(sel) : DayIndex(sel[i]).ok, days |-> sel]

\* lines 155-161: the restore value stored with the rule
RestoreValue(restore, live) ==
    IF restore = Current THEN live
    ELSE IF PyInt(restore).ok THEN PyInt(restore).val
    ELSE live

\* lines 155-161: the command reads channel.slowmode_delay when restore is
\* "current" or is no integer
ReadsLiveValue(restore) == restore = Current \/ ~PyInt(restore).ok

\* read is the outcome of reading channel.slowmode_delay: "ok", or "raise"
\* when the read raises, which the handler at lines 207-209 reports
AddCmd(channel, start_time, end_time, slowmode_seconds, days, restore, read) ==
    LET sel == SelectDays(days)
        rv == RestoreValue(restore, slowmode[channel])
        id == ScheduleId(GuildOf(channel), channel, start_time, end_time, sel.days)
        r == SchedulerAddSchedule(schedules, jobs, now, id, channel, start_time,
                                  end_time, slowmode_seconds, "UTC", sel.days, rv)
        aborted == ReadsLiveValue(restore) /\ read = "raise"
        args == [op |-> "add_schedule",
                 guild |-> GuildOf(channel), channel |-> channel,
                 start_time |-> start_time, end_time |-> end_time,
                 slowmode_seconds |-> slowmode_seconds,
                 days |-> sel.days, restore |-> restore, read |-> read]
    IN  /\ Budget
        /\ act' = "add_schedule"
        /\ IF ~sel.ok \/ aborted
           THEN /\ last' = [k \in DOMAIN args \cup {"ok", "validated", "restore_seconds", "id", "existed"} |->
                               CASE k = "ok" -> FALSE
                                 [] k = "validated" -> FALSE
                                 [] k = "restore_seconds" -> 0
                                 [] k = "id" -> <<>>
                                 [] k = "existed" -> FALSE
                                 [] OTHER -> args[k]]
                /\ UNCHANGED <<schedules, jobs, configData, file, removedIds, resolved>>
           ELSE /\ last' = [k \in DOMAIN args \cup {"ok", "validated", "restore_seconds", "id", "existed"} |->
                               CASE k = "ok" -> r.ok
                                 [] k = "validated" -> TRUE
                                 [] k = "restore_seconds" -> rv
                                 [] k = "id" -> id
                                 [] k = "existed" -> id \in DOMAIN schedules
                                 [] OTHER -> args[k]]
                /\ schedules' = r.schedules
                /\ jobs' = r.jobs
                /\ IF r.ok
                   THEN \* config.add_schedule: update the module-level config,
                        \* then save_config() writes all of it to the file
                        /\ configData' =
                               Put(configData, id,
                                   ConfigRecord(channel, start_time, end_time,
                                                slowmode_seconds, "UTC", sel.days, rv))
                        /\ file' = configData'
                        /\ removedIds' = removedIds \ {id}
                        /\ resolved' = IF restore = Current
                                       THEN Put(resolved, id, slowmode[channel])
                                       ELSE Del(resolved, id)
                   ELSE UNCHANGED <<configData, file, removedIds, resolved>>
        /\ UNCHANGED <<slowmode, now, inflight, lastFire, awaiting, running>>

(***************************************************************************)
(* bot_simple.remove_schedule                                              *)
(***************************************************************************)
\* lines 258-263, on the schedules of a BotConfig freshly loaded from the file
MatchingSchedules(data, channel, start_time, end_time) ==
    {id \in GetSchedules(data) :
        /\ data[id].channel_id = channel
        /\ data[id].start_time = start_time
        /\ data[id].end_time = end_time}

\* scheduler.remove_schedule applied to each id of a set, in turn
RECURSIVE SchedulerRemoveEach(_, _, _)
SchedulerRemoveEach(S, J, ids) ==
    IF ids = {} THEN [schedules |-> S, jobs |-> J]
    ELSE LET id == CHOOSE x \in ids : TRUE
             r == SchedulerRemoveSchedule(S, J, id)
         IN  SchedulerRemoveEach(r.schedules, r.jobs, ids \ {id})

RemoveCmd(channel, start_time, end_time) ==
    LET matching == MatchingSchedules(file, channel, start_time, end_time)
        removed == {id \in matching : SchedulerRemoveSchedule(schedules, jobs, id).ok}
        r == SchedulerRemoveEach(schedules, jobs, matching)
    IN  /\ Budget
        /\ act' = "remove_schedule"
        /\ last' = [op |-> "remove_schedule", ok |-> removed # {},
                    channel |-> channel, start_time |-> start_time,
                    end_time |-> end_time, matching |-> matching,
                    removed |-> removed,
                    before |-> schedules,
                    jobs_before |-> jobs,
                    after_add |->
                        IF /\ last.op = "add_schedule"
                           /\ last.ok
                           /\ last.channel = channel
                           /\ last.start_time = start_time
                           /\ last.end_time = end_time
                        THEN last.id ELSE <<>>]
        /\ schedules' = r.schedules
        /\ jobs' = r.jobs
        \* the local BotConfig removes each removed id and saves; the
        \* module-level config object is not touched
        /\ file' = ConfigRemoveAll(file, removed)
        /\ removedIds' = removedIds \cup removed
        /\ resolved' = [id \in DOMAIN resolved \ removed |-> resolved[id]]
        /\ awaiting' = awaiting \ removed
        /\ UNCHANGED <<configData, slowmode, now, inflight, lastFire, running>>

(***************************************************************************)
(* bot_simple.on_ready, and a restart of the process                       *)
(***************************************************************************)
\* the restore_seconds default of SlowmodeScheduler.add_schedule
DefaultRestoreSeconds == 0

\* lines 43-52: scheduler.add_schedule for every enabled record, without
\* days and without restore_seconds
RECURSIVE LoadSchedules(_, _, _, _, _)
LoadSchedules(data, ids, S, J, p) ==
    IF ids = {} THEN [schedules |-> S, jobs |-> J]
    ELSE LET id == CHOOSE x \in ids : TRUE
             rec == data[id]
             r == SchedulerAddSchedule(S, J, p, id, rec.channel_id, rec.start_time,
                                       rec.end_time, rec.slowmode_seconds,
                                       rec.timezone, NoDays, DefaultRestoreSeconds)
         IN  LoadSchedules(data, ids \ {id}, r.schedules, r.jobs, p)

\* on_ready runs again in the same process (the gateway session was
\* re-established): the module-level config and scheduler are the old ones
OnReady ==
    LET r == LoadSchedules(configData, GetSchedules(configData), schedules, jobs, now)
    IN  /\ Budget
        /\ act' = "on_ready"
        /\ last' = [op |-> "on_ready", ok |-> TRUE,
                    loaded |-> GetSchedules(configData)]
        /\ schedules' = r.schedules
        /\ jobs' = r.jobs
        /\ UNCHANGED <<configData, file, slowmode, now, inflight, lastFire>>
        /\ UNCHANGED <<removedIds, resolved, awaiting>>
        \* scheduler.start(): the scheduler runs (if it ran already, the
        \* error of start() is caught at scheduler.py:28)
        /\ running' = TRUE

\* a restart whose on_ready loads every record, the disabled ones too
RestartLoadsDisabled ==
    LET r == LoadSchedules(file, DOMAIN file, Empty, Empty, now)
    IN  /\ Budget
        /\ act' = "restart"
        /\ last' = [op |-> "restart", ok |-> TRUE, loaded |-> DOMAIN file]
        /\ configData' = file
        /\ schedules' = r.schedules
        /\ jobs' = r.jobs
        /\ inflight' = {}
        /\ awaiting' = {}
        /\ running' = TRUE
        /\ UNCHANGED <<file, slowmode, now, lastFire, removedIds, resolved>>

\* the process is restarted: BotConfig() loads the file, the scheduler is
\* new, and on_ready loads the enabled records
Restart ==
    LET r == LoadSchedules(file, GetSchedules(file), Empty, Empty, now)
    IN  /\ Budget
        /\ act' = "restart"
        /\ last' = [op |-> "restart", ok |-> TRUE, loaded |-> GetSchedules(file)]
        /\ configData' = file
        /\ schedules' = r.schedules
        /\ jobs' = r.jobs
        /\ inflight' = {}
        /\ awaiting' = {}
        /\ running' = TRUE
        /\ UNCHANGED <<file, slowmode, now, lastFire, removedIds, resolved>>

(***************************************************************************)
(* The action executor bot_simple.set_channel_slowmode and the callbacks   *)
(***************************************************************************)
\* what set_channel_slowmode(channel_id, seconds) can do: True after
\* channel.edit, or False; the platform refuses a value out of range.
\* "raise" is the exception branch of the scheduler's callbacks.
ExecutorOutcomes(seconds) ==
    IF 0 <= seconds /\ seconds <= MaxSlowmode
    THEN {"ok", "false", "raise"}
    ELSE {"false", "raise"}

\* number of executor calls one run of a callback makes
CallbackExecutorCalls == 1

\* the number of instances of one job that may run at the same time:
\* APScheduler's default for max_instances, which neither AsyncIOScheduler()
\* (line 20) nor the add_job calls (lines 95-121) override
MaxInstances == 1

\* a scheduler that submits every due job, however many instances of it
\* are still running
SubmittedOverlapping(J, pending, p) ==
    {k \in DOMAIN J : J[k].next_run_time = p}

\* the jobs of store J submitted at instant p while the callbacks pending
\* are still running: the due jobs, but a due job with MaxInstances
\* instances running is skipped (the scheduler logs a warning)
Submitted(J, pending, p) ==
    {k \in DOMAIN J :
        /\ J[k].next_run_time = p
        /\ Cardinality({e \in pending : e.job_id = k}) < MaxInstances}

\* the clock reaches the next instant.  A running scheduler submits the due
\* jobs (the callback is started with the args captured at registration,
\* for the run time p) and moves the next_run_time of every due job,
\* submitted or skipped, to the trigger's next occurrence.  A scheduler that
\* was shut down submits nothing.
ClockAdvance ==
    LET p == (now + 1) % WeekLen
        due == IF running THEN {k \in DOMAIN jobs : jobs[k].next_run_time = p}
               ELSE {}
        sub == IF running THEN Submitted(jobs, inflight, p) ELSE {}
    IN  /\ ticksLeft > 0
        /\ ticksLeft' = ticksLeft - 1
        /\ now' = p
        /\ act' = "tick"
        /\ inflight' = inflight \cup
                            {[job_id |-> k, func |-> jobs[k].func,
                              args |-> jobs[k].args, run_time |-> p] : k \in sub}
        /\ jobs' = [k \in DOMAIN jobs |->
                       IF k \in due
                       THEN [jobs[k] EXCEPT !.next_run_time = NextRunTime(jobs[k], p)]
                       ELSE jobs[k]]
        /\ awaiting' =
               LET started == {id \in DOMAIN schedules : StartJobId(id) \in sub}
                   ended == {id \in DOMAIN schedules : EndJobId(id) \in sub}
               IN  (awaiting \cup started) \ ended
        /\ UNCHANGED <<schedules, configData, file, slowmode, last, lastFire, cmdsLeft>>
        /\ UNCHANGED <<removedIds, resolved, running>>

\* the clock reaches the next instant after every callback submitted before
\* has returned
Tick == inflight = {} /\ ClockAdvance

\* the clock reaches the next instant while callbacks submitted before are
\* still running (their external call has not returned)
TickPending == inflight # {} /\ ClockAdvance

\* a callback that lets the executor's exception out, which stops the clock
FireRaiseStopsClock(e, outcome) ==
    /\ e \in inflight
    /\ outcome \in ExecutorOutcomes(e.args[2])
    /\ inflight' = inflight \ {e}
    /\ act' = "fire"
    /\ slowmode' = IF outcome = "ok"
                   THEN [slowmode EXCEPT ![e.args[1]] = e.args[2]]
                   ELSE slowmode
    /\ lastFire' = [job_id |-> e.job_id, func |-> e.func, args |-> e.args,
                    outcome |-> outcome, calls |-> CallbackExecutorCalls]
    /\ ticksLeft' = IF outcome = "raise" THEN 0 ELSE ticksLeft
    /\ UNCHANGED <<schedules, jobs, configData, file, now, last, cmdsLeft>>
    /\ UNCHANGED <<removedIds, resolved, awaiting, running>>

\* a callback that calls the executor a second time when the first call fails
FireRetriesOnFailure(e, outcome) ==
    /\ e \in inflight
    /\ outcome \in ExecutorOutcomes(e.args[2])
    /\ inflight' = inflight \ {e}
    /\ act' = "fire"
    /\ slowmode' = IF outcome = "ok"
                   THEN [slowmode EXCEPT ![e.args[1]] = e.args[2]]
                   ELSE slowmode
    /\ lastFire' = [job_id |-> e.job_id, func |-> e.func, args |-> e.args,
                    outcome |-> outcome,
                    calls |-> IF outcome = "ok" THEN CallbackExecutorCalls
                              ELSE CallbackExecutorCalls + 1]
    /\ UNCHANGED <<schedules, jobs, configData, file, now, last, cmdsLeft, ticksLeft>>
    /\ UNCHANGED <<removedIds, resolved, awaiting, running>>

\* a callback that disarms its own job when the executor fails
FireDisarmsOnFailure(e, outcome) ==
    /\ e \in inflight
    /\ outcome \in ExecutorOutcomes(e.args[2])
    /\ inflight' = inflight \ {e}
    /\ act' = "fire"
    /\ slowmode' = IF outcome = "ok"
                   THEN [slowmode EXCEPT ![e.args[1]] = e.args[2]]
                   ELSE slowmode
    /\ lastFire' = [job_id |-> e.job_id, func |-> e.func, args |-> e.args,
                    outcome |-> outcome, calls |-> CallbackExecutorCalls]
    /\ jobs' = IF outcome = "ok" THEN jobs ELSE Del(jobs, e.job_id)
    /\ UNCHANGED <<schedules, configData, file, now, last, cmdsLeft, ticksLeft>>
    /\ UNCHANGED <<removedIds, resolved, awaiting, running>>

\* _enable_slowmode / _restore_slowmode(channel_id, seconds) runs: one call
\* of the executor, whose result is only logged
Fire(e, outcome) ==
    /\ e \in inflight
    /\ outcome \in ExecutorOutcomes(e.args[2])
    /\ inflight' = inflight \ {e}
    /\ act' = "fire"
    /\ slowmode' = IF outcome = "ok"
                   THEN [slowmode EXCEPT ![e.args[1]] = e.args[2]]
                   ELSE slowmode
    /\ lastFire' = [job_id |-> e.job_id, func |-> e.func, args |-> e.args,
                    outcome |-> outcome, calls |-> CallbackExecutorCalls]
    /\ UNCHANGED <<schedules, jobs, configData, file, now, last, cmdsLeft, ticksLeft>>
    /\ UNCHANGED <<removedIds, resolved, awaiting, running>>

(***************************************************************************)
(* bot_simple.test_slowmode                                                *)
(***************************************************************************)
TestSlowmodeCmd(channel, seconds, outcome) ==
    /\ Budget
    /\ act' = "test_slowmode"
    /\ IF seconds < 0 \/ seconds > MaxSlowmode
       THEN /\ outcome = "rejected"
            /\ slowmode' = slowmode
       ELSE /\ outcome \in {"ok", "false"}
            /\ slowmode' = IF outcome = "ok"
                           THEN [slowmode EXCEPT ![channel] = seconds]
                           ELSE slowmode
    /\ last' = [op |-> "test_slowmode", ok |-> outcome = "ok", channel |-> channel,
                seconds |-> seconds]
    /\ UNCHANGED <<schedules, jobs, configData, file, now, inflight, lastFire>>
    /\ UNCHANGED <<removedIds, resolved, awaiting, running>>

(***************************************************************************)
(* The bot.                                                                *)
(***************************************************************************)
Next ==
    \/ \E a \in AddInputs : AddCmd(a[1], a[2], a[3], a[4], a[5], a[6], a[7])
    \/ \E r \in RemoveInputs : RemoveCmd(r[1], r[2], r[3])
    \/ \E t \in TestInputs, o \in {"ok", "false", "rejected"} :
          TestSlowmodeCmd(t[1], t[2], o)
    \/ OnReady
    \/ Restart
    \/ Tick
    \/ \E e \in inflight, o \in {"ok", "false", "raise"} : Fire(e, o)

Spec == Init /\ [][Next]_vars

SpecClock == InitClock /\ [][Next]_vars

(***************************************************************************)
(* The scheduler driven directly through its public methods, by any        *)
(* caller: SlowmodeScheduler.add_schedule / remove_schedule with arbitrary *)
(* arguments, and the clock.                                               *)
(***************************************************************************)
T1700Seconds == <<"1", "7", ":", "0", "0", ":", "0", "0">>

TMinus1 == <<"-", "1", ":", "0", "0">>

TLetters == <<"a", "b", ":", "0", "0">>

IdA == <<"a">>

IdB == <<"b">>

\* <<schedule_id, channel_id, start_time, end_time, slowmode_seconds,
\*   timezone, days, restore_seconds>>
ApiAddInputs ==
    {<<IdA, 5, T0900, T1700, DefaultSlowmodeSeconds, "UTC", <<"mon", "wed">>, 0>>,
     <<IdA, 5, T1700, T0900, 60, "UTC", NoDays, 5>>,
     <<IdB, 15, T0900, T0900, DefaultSlowmodeSeconds, "UTC", <<"sun">>, 0>>,
     <<IdA, 5, T0900, T1700, 60, "UTC", <<"mon", "xyz">>, 5>>,
     <<IdB, 15, T0900, T1700, DefaultSlowmodeSeconds, "UTC", <<"all">>, 0>>,
     <<IdA, 5, T2400, T1700, 60, "UTC", <<"tue">>, 5>>,
     <<IdA, 5, T0900, T0960, 60, "UTC", <<"tue">>, 5>>,
     <<IdA, 5, TNoColon, T1700, 60, "UTC", <<"tue">>, 5>>,
     <<IdA, 5, T0900, T1700Seconds, 60, "UTC", <<"tue">>, 5>>,
     <<IdB, 15, TMinus1, T1700, 60, "UTC", <<"tue">>, 5>>,
     <<IdB, 15, T0900, TLetters, 60, "UTC", <<"tue">>, 5>>,
     <<IdB, 15, T0900, T1700, 60, "Mars/Phobos", <<"tue">>, 5>>}

ApiAdd(schedule_id, channel_id, start_time, end_time, slowmode_seconds, timezone, days, restore_seconds) ==
    LET r == SchedulerAddSchedule(schedules, jobs, now, schedule_id, channel_id,
                                  start_time, end_time, slowmode_seconds, timezone,
                                  days, restore_seconds)
    IN  /\ Budget
        /\ act' = "api_add"
        /\ last' = [op |-> "api_add", ok |-> r.ok, id |-> schedule_id,
                    channel |-> channel_id, start_time |-> start_time,
                    end_time |-> end_time, slowmode_seconds |-> slowmode_seconds,
                    timezone |-> timezone, days |-> days,
                    restore_seconds |-> restore_seconds,
                    existed |-> schedule_id \in DOMAIN schedules]
        /\ schedules' = r.schedules
        /\ jobs' = r.jobs
        /\ removedIds' = IF r.ok THEN removedIds \ {schedule_id} ELSE removedIds
        /\ UNCHANGED <<configData, file, slowmode, now, inflight, lastFire>>
        /\ UNCHANGED <<resolved, awaiting, running>>

ApiRemove(schedule_id) ==
    LET r == SchedulerRemoveSchedule(schedules, jobs, schedule_id)
    IN  /\ Budget
        /\ act' = "api_remove"
        /\ last' = [op |-> "api_remove", ok |-> r.ok, id |-> schedule_id,
                    existed |-> schedule_id \in DOMAIN schedules,
                    start_error |-> ~RemoveJob(jobs, StartJobId(schedule_id)).ok,
                    end_error |-> ~RemoveJob(jobs, EndJobId(schedule_id)).ok]
        /\ schedules' = r.schedules
        /\ jobs' = r.jobs
        /\ removedIds' = IF r.ok THEN removedIds \cup {schedule_id} ELSE removedIds
        /\ awaiting' = awaiting \ {schedule_id}
        /\ UNCHANGED <<configData, file, slowmode, now, inflight, lastFire, resolved>>
        /\ UNCHANGED running

NextApi ==
    \/ \E a \in ApiAddInputs : ApiAdd(a[1], a[2], a[3], a[4], a[5], a[6], a[7], a[8])
    \/ \E id \in {IdA, IdB} : ApiRemove(id)
    \/ Tick
    \/ \E e \in inflight, o \in {"ok", "false", "raise"} : Fire(e, o)

SpecApi == InitApi /\ [][NextApi]_vars

(***************************************************************************)
(* The bot commands with edge-case arguments: a window whose start and end *)
(* coincide, a window that crosses midnight on one weekday, a repeated     *)
(* weekday tag, and a failing read of the channel's live value.            *)
(***************************************************************************)
\* argument lists of !sm add_schedule, as in AddInputs
EdgeAddInputs ==
    {<<5, T0900, T0900, DefaultSlowmodeSeconds, <<"mon">>, <<"5">>, "ok">>,
     <<5, T1700, T0900, DefaultSlowmodeSeconds, <<"mon">>, <<"5">>, "ok">>,
     <<5, T0900, T1700, DefaultSlowmodeSeconds, <<"mon", "mon">>, Current, "ok">>,
     <<5, T0900, T1700, DefaultSlowmodeSeconds, <<"tue">>, Current, "raise">>,
     <<15, T0900, T1700, DefaultSlowmodeSeconds, <<"ALL">>, Current, "ok">>}

\* argument lists of !sm remove_schedule
EdgeRemoveInputs == {<<5, T0900, T0900>>, <<5, T1700, T0900>>}

NextEdge ==
    \/ \E a \in EdgeAddInputs : AddCmd(a[1], a[2], a[3], a[4], a[5], a[6], a[7])
    \/ \E r \in EdgeRemoveInputs : RemoveCmd(r[1], r[2], r[3])
    \/ Tick
    \/ \E e \in inflight, o \in {"ok", "false", "raise"} : Fire(e, o)

SpecEdge == InitEdge /\ [][NextEdge]_vars

(***************************************************************************)
(* The bot started on a persisted store that an operator has edited: next  *)
(* to the default example record it holds a rule for channel 5 from 09:00  *)
(* to 17:00 that was switched off (enabled false).  BotConfig loads the     *)
(* file as it is; on_ready finds no enabled record.                        *)
(***************************************************************************)
OldId == <<"o", "l", "d">>

DisabledSchedules ==
    [id \in {ExampleId, OldId} |->
        IF id = ExampleId THEN DefaultSchedules[ExampleId]
        ELSE [ConfigRecord(5, T0900, T1700, 60, "UTC", <<"mon">>, 0)
                  EXCEPT !.enabled = FALSE]]

InitStore ==
    /\ schedules = Empty
    /\ jobs = Empty
    /\ configData = DisabledSchedules
    /\ file = DisabledSchedules
    /\ slowmode = [c \in Channels |-> 0]
    /\ now = WeekLen - 1
    /\ inflight = {}
    /\ last = NoCmd
    /\ lastFire = NoFire
    /\ act = "init"
    /\ cmdsLeft = StoreCmds
    /\ ticksLeft = StoreTicks
    /\ removedIds = {}
    /\ resolved = Empty
    /\ awaiting = {}
    /\ running = TRUE

\* argument lists of !sm add_schedule, as in AddInputs
StoreAddInputs ==
    {<<5, T0900, T1700, DefaultSlowmodeSeconds, <<"tue">>, Current, "ok">>,
     <<15, T1700, T0900, DefaultSlowmodeSeconds, <<"ALL">>, <<"5">>, "ok">>}

\* argument lists of !sm remove_schedule
StoreRemoveInputs == {<<5, T0900, T1700>>}

NextStore ==
    \/ \E a \in StoreAddInputs : AddCmd(a[1], a[2], a[3], a[4], a[5], a[6], a[7])
    \/ \E r \in StoreRemoveInputs : RemoveCmd(r[1], r[2], r[3])
    \/ OnReady
    \/ Restart
    \/ Tick
    \/ \E e \in inflight, o \in {"ok", "false", "raise"} : Fire(e, o)

SpecStore == InitStore /\ [][NextStore]_vars

(***************************************************************************)
(* The add_schedule command with arguments that agree or differ in the     *)
(* components of the identifier: the same days in another order, another   *)
(* day, another channel, and time strings that hold an underscore (int()   *)
(* accepts "0_1" as 1 and "1_7" as 17).                                    *)
(***************************************************************************)
T9c0 == <<"9", ":", "0">>

T1u7c00 == <<"1", "_", "7", ":", "0", "0">>

T9c0u1 == <<"9", ":", "0", "_", "1">>

T7c00 == <<"7", ":", "0", "0">>

InitId == InitWith(IdCmds, IdTicks)

\* argument lists of !sm add_schedule, as in AddInputs
IdAddInputs ==
    {<<5, T0900, T1700, DefaultSlowmodeSeconds, <<"mon", "wed">>, <<"5">>, "ok">>,
     <<5, T0900, T1700, 60, <<"wed", "mon">>, <<"0">>, "ok">>,
     <<5, T0900, T1700, DefaultSlowmodeSeconds, <<"mon">>, <<"5">>, "ok">>,
     <<5, T0900, T1700, DefaultSlowmodeSeconds, <<"mon", "mon">>, <<"5">>, "ok">>,
     <<5, T1700, T0900, DefaultSlowmodeSeconds, <<"mon", "wed">>, <<"5">>, "ok">>,
     <<15, T0900, T1700, DefaultSlowmodeSeconds, <<"mon", "wed">>, <<"5">>, "ok">>,
     <<5, T9c0, T1u7c00, DefaultSlowmodeSeconds, <<"mon">>, <<"5">>, "ok">>,
     <<5, T9c0u1, T7c00, DefaultSlowmodeSeconds, <<"mon">>, <<"5">>, "ok">>}

NextId ==
    \/ \E a \in IdAddInputs : AddCmd(a[1], a[2], a[3], a[4], a[5], a[6], a[7])
    \/ Tick
    \/ \E e \in inflight, o \in {"ok", "false", "raise"} : Fire(e, o)

SpecId == InitId /\ [][NextId]_vars

(***************************************************************************)
(* The scheduler with callbacks whose external call outlasts clock         *)
(* instants, and SlowmodeScheduler.stop().                                 *)
(***************************************************************************)
\* SlowmodeScheduler.stop(): scheduler.shutdown(), any error of it caught
\* and logged.  On a scheduler that is not running shutdown() raises and
\* nothing changes.  On a running one the clock is stopped; the callbacks
\* in flight are either left to run on (cancels = FALSE) or cancelled at
\* their pending await (cancels = TRUE): shutdown() is called with its
\* default arguments and the executor of the AsyncIOScheduler decides, not
\* this code.
Stop(cancels) ==
    /\ Budget
    /\ act' = "stop"
    /\ last' = [op |-> "stop", ok |-> running,
                cancelled |-> IF running /\ cancels THEN inflight ELSE {}]
    /\ running' = FALSE
    /\ inflight' = IF running /\ cancels THEN {} ELSE inflight
    /\ UNCHANGED <<schedules, jobs, configData, file, slowmode, now, lastFire>>
    /\ UNCHANGED <<removedIds, resolved, awaiting>>

InitPending == InitWith(PendingCalls, PendingTicks)

\* argument lists of SlowmodeScheduler.add_schedule, as in ApiAddInputs
PendingAddInputs ==
    {<<IdA, 5, T1700, T0900, 60, "UTC", NoDays, 5>>,
     <<IdB, 15, T0900, T1700, DefaultSlowmodeSeconds, "UTC", <<"mon", "tue">>, 0>>}

NextPending ==
    \/ \E a \in PendingAddInputs :
          ApiAdd(a[1], a[2], a[3], a[4], a[5], a[6], a[7], a[8])
    \/ \E c \in BOOLEAN : Stop(c)
    \/ Tick
    \/ TickPending
    \/ \E e \in inflight, o \in {"ok", "false", "raise"} : Fire(e, o)

SpecPending == InitPending /\ [][NextPending]_vars

(***************************************************************************)
(* Properties.                                                             *)
(***************************************************************************)
\* the job ids of the store that belong to rule id: those of the form id + "_..."
JobsOf(J, id) == {k \in DOMAIN J : StartsWith(k, id \o <<"_">>)}

\* C1: an add_schedule command that succeeds, followed immediately by a
\* remove_schedule command with the same (target, start, end), leaves the
\* index without the rule's id and the job store without its "_start" and
\* "_end" jobs.
C1_AddThenRemoveLeavesNothing ==
    (last.op = "remove_schedule" /\ last.after_add # <<>>) =>
        /\ last.after_add \notin DOMAIN schedules
        /\ StartJobId(last.after_add) \notin DOMAIN jobs
        /\ EndJobId(last.after_add) \notin DOMAIN jobs

\* the remove command ran right after the successful add of a rule that
\* was then indexed and armed, and it reported the removal
C1_Witness ==
    /\ last.op = "remove_schedule"
    /\ last.after_add # <<>>
    /\ last.after_add \in DOMAIN last.before
    /\ StartJobId(last.after_add) \in DOMAIN last.jobs_before
    /\ EndJobId(last.after_add) \in DOMAIN last.jobs_before
    /\ last.after_add \in last.removed

\* C2: an add_schedule command whose derived id is already in the index
\* replaces the rule: it succeeds, the index entry carries the values of
\* this add, and the job store holds exactly the two jobs "<id>_start" and
\* "<id>_end" for the id, armed with the values and days of this add.
C2_ReAddReplaces ==
    (last.op = "add_schedule" /\ last.validated /\ last.existed) =>
        /\ last.ok
        /\ last.id \in DOMAIN schedules
        /\ schedules[last.id].channel_id = last.channel
        /\ schedules[last.id].start_time = last.start_time
        /\ schedules[last.id].end_time = last.end_time
        /\ schedules[last.id].slowmode_seconds = last.slowmode_seconds
        /\ schedules[last.id].restore_seconds = last.restore_seconds
        /\ schedules[last.id].days = last.days
        /\ JobsOf(jobs, last.id) = {StartJobId(last.id), EndJobId(last.id)}
        /\ jobs[StartJobId(last.id)].func = "_enable_slowmode"
        /\ jobs[StartJobId(last.id)].args = <<last.channel, last.slowmode_seconds>>
        /\ jobs[EndJobId(last.id)].func = "_restore_slowmode"
        /\ jobs[EndJobId(last.id)].args = <<last.channel, last.restore_seconds>>
        /\ \A k \in JobsOf(jobs, last.id) :
               jobs[k].day_of_week
                   = {i \in 0..6 : \E j \in 1..Len(last.days) :
                                      last.days[j] = WeekDays[i + 1]}

\* a rule was re-added with another active value and another day list than
\* the ones the index held, as the third add of the same id
C2_Witness ==
    /\ last.op = "add_schedule"
    /\ last.existed
    /\ last.ok
    /\ last.slowmode_seconds = MaxSlowmode + 1
    /\ last.days = <<"wed", "mon">>
    /\ cmdsLeft <= MaxCmds - 3
    /\ Cardinality(DOMAIN schedules) = 1

\* C3: get_guild_schedules(owner) returns only rules added for that owner
\* (rules on a channel of that guild), and never a rule whose persisted
\* record has enabled = false.
C3_ListScopedToOwner ==
    \A g \in Guilds : \A id \in GetGuildSchedules(schedules, g) :
        /\ GuildOf(schedules[id].channel_id) = g
        /\ id \in DOMAIN file => file[id].enabled

\* both guilds have rules, each guild lists its own, and the disabled
\* example record is in the persisted store
C3_Witness ==
    /\ \A g \in Guilds : GetGuildSchedules(schedules, g) # {}
    /\ \E id \in DOMAIN file : ~file[id].enabled
    /\ \E id \in DOMAIN schedules : id \notin GetGuildSchedules(schedules, 1)

\* C4: a firing of the activate or restore callback whose external call
\* returns false or raises leaves the rule index, the persisted store and
\* both jobs of every rule unchanged, next fire times included: each job is
\* still armed for its trigger's next occurrence after the current instant.
C4_FailedFiringChangesNothing ==
    [][(act' = "fire" /\ lastFire'.outcome \in {"false", "raise"}) =>
          /\ schedules' = schedules
          /\ file' = file
          /\ jobs' = jobs
          /\ \A k \in DOMAIN jobs' :
                 jobs'[k].next_run_time = NextRunTime(jobs'[k], now')]_vars

\* the activation of an indexed rule has just failed (the executor returned
\* false) and the rule is indexed with both its jobs
C4_Witness ==
    /\ act = "fire"
    /\ lastFire.outcome = "false"
    /\ \E id \in DOMAIN schedules :
           /\ lastFire.job_id = StartJobId(id)
           /\ StartJobId(id) \in DOMAIN jobs
           /\ EndJobId(id) \in DOMAIN jobs

\* the canonical weekday numbers: mon = 0, tue = 1, ..., sun = 6
CanonicalDay(tag) ==
    CASE tag = "mon" -> 0
      [] tag = "tue" -> 1
      [] tag = "wed" -> 2
      [] tag = "thu" -> 3
      [] tag = "fri" -> 4
      [] tag = "sat" -> 5
      [] tag = "sun" -> 6

DaySet(rule) == {CanonicalDay(rule.days[i]) : i \in 1..Len(rule.days)}

\* the clock instant p shows the time of day written t
AtTime(p, t) ==
    /\ ParseTime(t).hour = TimeOfDay(p).hour
    /\ ParseTime(t).minute = TimeOfDay(p).minute

\* C5: when the clock reaches an instant, the activate callback of an
\* indexed rule with day-set D is invoked iff the instant's weekday is in D
\* (mon = 0 .. sun = 6) and its time is start_time, and then with
\* (target, active_value); the restore callback is invoked iff the weekday
\* is in D and the time is end_time, and then with (target, restore_value).
C5_FiresExactlyOnDays ==
    [][act' = "tick" =>
          \A id \in DOMAIN schedules :
              LET r == schedules[id]
              IN  /\ (\E e \in inflight' : e.job_id = StartJobId(id))
                         <=> (Weekday(now') \in DaySet(r) /\ AtTime(now', r.start_time))
                  /\ \A e \in inflight' :
                         e.job_id = StartJobId(id) =>
                             /\ e.func = "_enable_slowmode"
                             /\ e.args = <<r.channel_id, r.slowmode_seconds>>
                  /\ (\E e \in inflight' : e.job_id = EndJobId(id))
                         <=> (Weekday(now') \in DaySet(r) /\ AtTime(now', r.end_time))
                  /\ \A e \in inflight' :
                         e.job_id = EndJobId(id) =>
                             /\ e.func = "_restore_slowmode"
                             /\ e.args = <<r.channel_id, r.restore_seconds>>]_vars

\* it is monday 09:00 for the second time since the clock started, and the
\* activation of the rule added for [mon, wed] on channel 5 has been invoked
\* with (5, 30)
C5_Witness ==
    /\ act = "tick"
    /\ Weekday(now) = 0
    /\ TimeOfDay(now).hour = 9
    /\ ticksLeft < ClockTicks - WeekLen
    /\ \E id \in DOMAIN schedules :
           /\ schedules[id].days = <<"mon", "wed">>
           /\ [job_id |-> StartJobId(id), func |-> "_enable_slowmode",
               args |-> <<5, DefaultSlowmodeSeconds>>, run_time |-> now] \in inflight

\* C6: a remove_schedule command whose (target, start, end) triple matches
\* k >= 1 stored rules removes all k: none of them is left in the index or
\* in the job store, the index size decreases by exactly k, and the rules
\* with another triple are untouched.
C6_RemoveRemovesAllMatching ==
    (last.op = "remove_schedule" /\ last.matching # {}) =>
        /\ \A id \in last.matching :
               /\ id \notin DOMAIN schedules
               /\ StartJobId(id) \notin DOMAIN jobs
               /\ EndJobId(id) \notin DOMAIN jobs
        /\ Cardinality(DOMAIN schedules)
               = Cardinality(DOMAIN last.before) - Cardinality(last.matching)
        /\ \A id \in DOMAIN last.before \ last.matching :
               /\ id \in DOMAIN schedules
               /\ schedules[id] = last.before[id]

\* a remove command matched two stored rules of its triple, only one of
\* them was in the index, and the other one is still in the persisted store
C6_Witness ==
    /\ last.op = "remove_schedule"
    /\ Cardinality(last.matching) = 2
    /\ Cardinality(last.matching \cap DOMAIN last.before) = 1
    /\ \E id \in last.matching : id \in GetSchedules(file)

\* t is not parseable as hour:minute, or its hour is outside [0, 23] or its
\* minute outside [0, 59]
BadTime(t) ==
    \/ ~ParseTime(t).ok
    \/ ParseTime(t).hour \notin 0..23
    \/ ParseTime(t).minute \notin 0..59

\* C7: SlowmodeScheduler.add_schedule called with a start_time or end_time
\* that is not parseable or is out of range reports failure and leaves the
\* rule index and the job store exactly as they were.
C7_BadTimeChangesNothing ==
    [][(act' = "api_add" /\ (BadTime(last'.start_time) \/ BadTime(last'.end_time))) =>
          /\ ~last'.ok
          /\ schedules' = schedules
          /\ jobs' = jobs]_vars

\* add_schedule has just been refused for a bad time, for an id that is in
\* the index with other values than the refused call's, and armed
C7_Witness ==
    /\ act = "api_add"
    /\ BadTime(last.start_time) \/ BadTime(last.end_time)
    /\ ~last.ok
    /\ last.existed
    /\ last.id \in DOMAIN schedules
    /\ schedules[last.id].slowmode_seconds # last.slowmode_seconds
    /\ JobsOf(jobs, last.id) = {StartJobId(last.id), EndJobId(last.id)}

\* C8: SlowmodeScheduler.add_schedule called with a days list that holds a
\* tag outside {mon, ..., sun} is rejected before any state change: it
\* reports failure and the rule index and the job store are as before.
C8_BadDayChangesNothing ==
    [][(/\ act' = "api_add"
        /\ last'.days # NoDays
        /\ \E i \in 1..Len(last'.days) :
               last'.days[i] \notin {"mon", "tue", "wed", "thu", "fri", "sat", "sun"}) =>
          /\ ~last'.ok
          /\ schedules' = schedules
          /\ jobs' = jobs]_vars

\* add_schedule has just reported failure for the days [mon, xyz], and the
\* index holds the rule of that call, with no job armed for it
C8_Witness ==
    /\ act = "api_add"
    /\ ~last.ok
    /\ last.days = <<"mon", "xyz">>
    /\ ~last.existed
    /\ last.id \in DOMAIN schedules
    /\ schedules[last.id].days = last.days
    /\ JobsOf(jobs, last.id) = {}

\* C9: no rule in the index and no armed activate job carries an
\* active_value outside [0, 21600].
C9_ActiveValueInRange ==
    /\ \A id \in DOMAIN schedules :
           /\ 0 <= schedules[id].slowmode_seconds
           /\ schedules[id].slowmode_seconds <= MaxSlowmode
    /\ \A k \in DOMAIN jobs :
           jobs[k].func = "_enable_slowmode" =>
               (0 <= jobs[k].args[2] /\ jobs[k].args[2] <= MaxSlowmode)

\* an add_schedule command with the active value 21601 has succeeded: the
\* rule is indexed and its activate job is armed with that value
C9_Witness ==
    /\ act = "add_schedule"
    /\ last.ok
    /\ last.slowmode_seconds = MaxSlowmode + 1
    /\ schedules[last.id].slowmode_seconds = MaxSlowmode + 1
    /\ jobs[StartJobId(last.id)].args = <<last.channel, MaxSlowmode + 1>>

\* C10: after every completed add_schedule or remove_schedule command the
\* enabled rule ids of the persisted store are the rule ids of the index.
C10_StoreMirrorsIndex ==
    act \in {"add_schedule", "remove_schedule"} =>
        GetSchedules(file) = DOMAIN schedules

\* an add_schedule command has just succeeded and the persisted store holds,
\* enabled, a rule that an earlier remove_schedule command removed
C10_Witness ==
    /\ act = "add_schedule"
    /\ last.ok
    /\ \E id \in GetSchedules(file) : id \notin DOMAIN schedules

\* C11: a rule that a remove_schedule command has removed, and that no
\* add has added again, stays removed through later adds of other rules and
\* restarts: it is not in the index, neither of its jobs is armed, and no
\* clock tick invokes a callback of it.
C11_RemovedStaysRemoved ==
    \A id \in removedIds :
        /\ id \notin DOMAIN schedules
        /\ StartJobId(id) \notin DOMAIN jobs
        /\ EndJobId(id) \notin DOMAIN jobs
        /\ act = "tick" =>
               \A e \in inflight : e.job_id \notin {StartJobId(id), EndJobId(id)}

\* after a restart of the process the clock has just invoked the activate
\* callback of a rule that was removed and not added again
C11_Witness ==
    /\ act = "tick"
    /\ last.op = "restart"
    /\ \E id \in removedIds :
           /\ id \in DOMAIN schedules
           /\ \E e \in inflight : e.job_id = StartJobId(id)

\* C12: a restart re-creates every enabled rule of the persisted store that
\* was in memory before it with the same index entry (target, start_time,
\* end_time, active_value, restore_value, days, timezone) and the same two
\* jobs (callback, arguments, time of day and weekdays).
C12_RestartRebuildsIdentically ==
    [][act' = "restart" =>
          \A id \in GetSchedules(file) \cap DOMAIN schedules :
              (StartJobId(id) \in DOMAIN jobs /\ EndJobId(id) \in DOMAIN jobs) =>
                  /\ id \in DOMAIN schedules'
                  /\ schedules'[id] = schedules[id]
                  /\ \A k \in {StartJobId(id), EndJobId(id)} :
                         /\ k \in DOMAIN jobs'
                         /\ jobs'[k].func = jobs[k].func
                         /\ jobs'[k].args = jobs[k].args
                         /\ jobs'[k].hour = jobs[k].hour
                         /\ jobs'[k].minute = jobs[k].minute
                         /\ jobs'[k].day_of_week = jobs[k].day_of_week]_vars

\* the process has just restarted and the rule persisted with the days
\* [mon, wed] is in the index with all seven days
C12_Witness ==
    /\ act = "restart"
    /\ \E id \in DOMAIN schedules \cap GetSchedules(file) :
           /\ file[id].days = <<"mon", "wed">>
           /\ schedules[id].days = WeekDays
           /\ jobs[StartJobId(id)].day_of_week = 0..6

\* C13: SlowmodeScheduler.remove_schedule called for an id that is in the
\* index reports success and leaves the index without the id and the job
\* store without its start job and without its end job, whether or not
\* removing either job raised; the other jobs are untouched.
C13_RemoveIsBestEffort ==
    [][(act' = "api_remove" /\ last'.existed) =>
          /\ last'.ok
          /\ last'.id \notin DOMAIN schedules'
          /\ StartJobId(last'.id) \notin DOMAIN jobs'
          /\ EndJobId(last'.id) \notin DOMAIN jobs'
          /\ \A k \in DOMAIN jobs \ {StartJobId(last'.id), EndJobId(last'.id)} :
                 k \in DOMAIN jobs' /\ jobs'[k] = jobs[k]]_vars

\* remove_schedule has just succeeded for an indexed rule although removing
\* its start job and removing its end job both raised, while another rule is
\* armed
C13_Witness ==
    /\ act = "api_remove"
    /\ last.existed
    /\ last.ok
    /\ last.start_error
    /\ last.end_error
    /\ last.id \notin DOMAIN schedules
    /\ DOMAIN jobs # {}

\* C14: a firing whose executor call returns false or raises ends inside the
\* callback: the clock, the job store and the other callbacks already
\* invoked are as before, and at every later clock instant each armed job
\* whose trigger matches the instant is invoked, the failed job included.
C14_FailureIsAbsorbed ==
    [][/\ (act' = "fire" /\ lastFire'.outcome \in {"false", "raise"}) =>
              /\ now' = now
              /\ ticksLeft' = ticksLeft
              /\ jobs' = jobs
              /\ \A e \in inflight : e.job_id # lastFire'.job_id => e \in inflight'
       /\ (act' = "tick" /\ lastFire.outcome \in {"false", "raise"}) =>
              \A k \in DOMAIN jobs :
                  TriggerMatches(jobs[k], now') =>
                      \E e \in inflight' :
                          /\ e.job_id = k
                          /\ e.func = jobs[k].func
                          /\ e.args = jobs[k].args]_vars

\* the executor raised in the last firing, and the clock has now invoked the
\* same job again at its next occurrence
C14_Witness ==
    /\ act = "tick"
    /\ lastFire.outcome = "raise"
    /\ \E e \in inflight : e.job_id = lastFire.job_id

\* C15: each run of the activate or restore callback calls the executor
\* exactly once, whatever the call's outcome, and the invocation is used up
\* by the run: the same job has no second invocation pending, and the clock
\* invokes a due job once per instant.
C15_OneExecutorCallPerFiring ==
    [][/\ act' = "fire" =>
              /\ lastFire'.calls = 1
              /\ \A e \in inflight' : e.job_id # lastFire'.job_id
       /\ act' = "tick" =>
              \A e1, e2 \in inflight' : e1.job_id = e2.job_id => e1 = e2]_vars

\* the restore callback has just run, the executor raised, and it was called
\* once
C15_Witness ==
    /\ act = "fire"
    /\ lastFire.func = "_restore_slowmode"
    /\ lastFire.outcome = "raise"
    /\ lastFire.calls = 1

\* C16: an add_schedule command with restore "current" stores the target's
\* live value as read during the command, in the index entry and in the
\* arguments of the restore job; and every later invocation of the restore
\* callback of that rule is made with that value, whatever the target's
\* live value is by then.
C16_RestoreCurrentResolvedOnce ==
    [][/\ (act' = "add_schedule" /\ last'.ok /\ last'.restore = Current) =>
              /\ schedules'[last'.id].restore_seconds = slowmode[last'.channel]
              /\ jobs'[EndJobId(last'.id)].args = <<last'.channel, slowmode[last'.channel]>>
       /\ act' = "tick" =>
              \A id \in DOMAIN resolved :
                  \A e \in inflight' :
                      e.job_id = EndJobId(id) => e.args[2] = resolved[id]]_vars

\* the clock has just invoked the restore callback of a rule added with
\* restore "current" when the live value was 5, and the invocation carries
\* another value
C16_Witness ==
    /\ act = "tick"
    /\ \E id \in DOMAIN resolved :
           /\ resolved[id] = 5
           /\ \E e \in inflight : e.job_id = EndJobId(id) /\ e.args[2] # 5

\* C17: an add_schedule command with restore "current", valid days and valid
\* times, whose read of the target's live value fails, is not aborted: the
\* rule is in the index with restore value 0 and armed with both jobs, the
\* restore job carrying 0.
C17_ReadFailureFallsBackToZero ==
    (/\ act = "add_schedule"
     /\ last.restore = Current
     /\ last.read = "raise"
     /\ \A i \in 1..Len(last.days) : DayIndex(last.days[i]).ok
     /\ ~BadTime(last.start_time)
     /\ ~BadTime(last.end_time)) =>
        LET id == ScheduleId(last.guild, last.channel, last.start_time,
                             last.end_time, last.days)
        IN  /\ last.ok
            /\ id \in DOMAIN schedules
            /\ schedules[id].restore_seconds = 0
            /\ StartJobId(id) \in DOMAIN jobs
            /\ EndJobId(id) \in DOMAIN jobs
            /\ jobs[EndJobId(id)].args = <<last.channel, 0>>

\* an add_schedule command with restore "current" has just ended with the
\* read of the live value failing, and the index and the job store are empty
C17_Witness ==
    /\ act = "add_schedule"
    /\ last.restore = Current
    /\ last.read = "raise"
    /\ ~last.ok
    /\ DOMAIN schedules = {}
    /\ DOMAIN jobs = {}

\* the two callbacks of rule id have just run one after the other, both
\* with success, and no invoked callback is pending
BothRan(id, before, after, pending) ==
    /\ pending = {}
    /\ before.outcome = "ok"
    /\ after.outcome = "ok"
    /\ {before.job_id, after.job_id} = JobsOf(jobs, id)

\* C18: an add_schedule command with start_time = end_time is accepted (the
\* rule is indexed and armed with two jobs), and when both callbacks of an
\* occurrence have run with success the restore was applied last: the
\* target's value is the rule's restore value.
C18_RestoreWinsWhenStartIsEnd ==
    [][/\ (act' = "add_schedule" /\ last'.validated /\ last'.start_time = last'.end_time) =>
              /\ last'.ok
              /\ last'.id \in DOMAIN schedules'
              /\ Cardinality(JobsOf(jobs', last'.id)) = 2
       /\ (act = "fire" /\ act' = "fire") =>
              \A id \in DOMAIN schedules :
                  (/\ schedules[id].start_time = schedules[id].end_time
                   /\ BothRan(id, lastFire, lastFire', inflight')) =>
                      slowmode'[schedules[id].channel_id] = schedules[id].restore_seconds]_vars

\* both callbacks of the rule from 09:00 to 09:00 have run with success on
\* monday 09:00, the activate one last: the target's value is the active
\* value 30, not the restore value 5
C18_Witness ==
    /\ act = "fire"
    /\ inflight = {}
    /\ lastFire.func = "_enable_slowmode"
    /\ lastFire.outcome = "ok"
    /\ \E id \in DOMAIN schedules :
           /\ schedules[id].start_time = schedules[id].end_time
           /\ schedules[id].restore_seconds = 5
           /\ lastFire.job_id = StartJobId(id)
           /\ slowmode[schedules[id].channel_id] = DefaultSlowmodeSeconds

\* C19: for a rule that stays armed, the clock instant that next shows the
\* rule's end_time after an invocation of its activate callback invokes its
\* restore callback, and the activate callback is not invoked again before
\* that; also for windows that cross midnight.
C19_RestoreFollowsActivation ==
    [][act' = "tick" =>
          \A id \in awaiting \cap DOMAIN schedules :
              /\ AtTime(now', schedules[id].end_time) =>
                     \E e \in inflight' : e.job_id = EndJobId(id)
              /\ ~AtTime(now', schedules[id].end_time) =>
                     \A e \in inflight' : e.job_id # StartJobId(id)]_vars

\* the activate callback of the rule from 17:00 to 09:00 on [mon] was
\* invoked on monday, it is now tuesday 09:00, and the restore callback is
\* not invoked
C19_Witness ==
    /\ act = "tick"
    /\ Weekday(now) = 1
    /\ TimeOfDay(now).hour = 9
    /\ \E id \in awaiting \cap DOMAIN schedules :
           /\ schedules[id].days = <<"mon">>
           /\ AtTime(now, schedules[id].end_time)
           /\ \A e \in inflight : e.job_id # EndJobId(id)

\* C20: every rule in the index has a days value that is non-empty, holds
\* no tag twice and holds only tags of {mon, ..., sun} (so never "all").
C20_DaysWellFormed ==
    \A id \in DOMAIN schedules :
        LET days == schedules[id].days
        IN  /\ Len(days) > 0
            /\ \A i, j \in 1..Len(days) : days[i] = days[j] => i = j
            /\ \A i \in 1..Len(days) :
                   days[i] \in {"mon", "tue", "wed", "thu", "fri", "sat", "sun"}

\* an add_schedule command for the days "mon,mon" has succeeded and the
\* index holds the rule with the tag mon twice
C20_Witness ==
    /\ act = "add_schedule"
    /\ last.ok
    /\ schedules[last.id].days = <<"mon", "mon">>

\* C21: a rule whose persisted record has enabled = false is never indexed,
\* armed or invoked, is never matched by a remove_schedule command, and its
\* record stays in the persisted store, unchanged, through add_schedule and
\* remove_schedule commands on other rules, on_ready runs and restarts.
C21_DisabledRetainedAndInert ==
    \A id \in DOMAIN DisabledSchedules :
        /\ id \in DOMAIN file
        /\ file[id] = DisabledSchedules[id]
        /\ id \notin DOMAIN schedules
        /\ StartJobId(id) \notin DOMAIN jobs
        /\ EndJobId(id) \notin DOMAIN jobs
        /\ \A e \in inflight : e.job_id \notin {StartJobId(id), EndJobId(id)}
        /\ last.op = "remove_schedule" => id \notin last.matching

\* a remove_schedule command for the triple of the disabled rule has removed
\* an enabled rule of that triple, another rule is stored, and the process
\* has restarted since
C21_Witness ==
    /\ act = "restart"
    /\ removedIds # {}
    /\ last.loaded # {}
    /\ \A id \in removedIds :
           /\ id \notin last.loaded
           /\ StartsWith(id, IntToStr(GuildOf(file[OldId].channel_id)) \o <<"_">>)
    /\ ~file[OldId].enabled

\* the set of the day tags of a command's selected days
TagSet(days) == {days[i] : i \in 1..Len(days)}

\* two add_schedule commands agree in owner, target, start_time, end_time
\* and in the set of their day tags
SameComponents(c1, c2) ==
    /\ c1.guild = c2.guild
    /\ c1.channel = c2.channel
    /\ c1.start_time = c2.start_time
    /\ c1.end_time = c2.end_time
    /\ TagSet(c1.days) = TagSet(c2.days)

\* C22: two add_schedule commands with the same owner, target, start, end
\* and the same set of day tags, in any order, produce the same identifier,
\* and two commands that differ in one of the five components produce
\* different identifiers.
C22_IdDeterministicAndInjective ==
    [][(/\ act' = "add_schedule"
        /\ last.op = "add_schedule"
        /\ last.validated
        /\ last'.validated) =>
          (SameComponents(last, last') <=> last'.id = last.id)]_vars

\* the command for 9:0_1 to 7:00 has produced the identifier of the rule
\* added before it for 9:0 to 1_7:00 (09:00 to 17:00), and has replaced
\* that rule in the index
C22_Witness ==
    /\ act = "add_schedule"
    /\ last.ok
    /\ last.existed
    /\ last.start_time = T9c0u1
    /\ last.end_time = T7c00
    /\ last.id = ScheduleId(last.guild, last.channel, T9c0, T1u7c00, last.days)
    /\ DOMAIN schedules = {last.id}
    /\ ParseTime(schedules[last.id].end_time).hour = 7

\* C23: in every state reached by SlowmodeScheduler.add_schedule calls
\* (successful or failing), remove_schedule calls and firings, each rule id
\* of the index has its two jobs "<id>_start" and "<id>_end", armed with
\* (channel_id, slowmode_seconds) and (channel_id, restore_seconds) of the
\* index entry, and every job of the store belongs to a rule of the index.
C23_IndexAndJobsAgree ==
    /\ \A id \in DOMAIN schedules :
           /\ StartJobId(id) \in DOMAIN jobs
           /\ EndJobId(id) \in DOMAIN jobs
           /\ jobs[StartJobId(id)].args
                  = <<schedules[id].channel_id, schedules[id].slowmode_seconds>>
           /\ jobs[EndJobId(id)].args
                  = <<schedules[id].channel_id, schedules[id].restore_seconds>>
    /\ \A k \in DOMAIN jobs :
           \E id \in DOMAIN schedules : k \in {StartJobId(id), EndJobId(id)}

\* add_schedule has just reported failure for an armed rule: the index entry
\* carries the values of the failed call (60, 5) and the two jobs are still
\* armed with the values of the call before (30, 0)
C23_Witness ==
    /\ act = "api_add"
    /\ ~last.ok
    /\ last.existed
    /\ schedules[last.id].slowmode_seconds = 60
    /\ schedules[last.id].restore_seconds = 5
    /\ StartJobId(last.id) \in DOMAIN jobs
    /\ jobs[StartJobId(last.id)].args = <<last.channel, DefaultSlowmodeSeconds>>
    /\ jobs[EndJobId(last.id)].args = <<last.channel, 0>>

\* C24: a call of SlowmodeScheduler.remove_schedule for an id that is not in
\* the index reports failure: the remove_schedule command that made it does
\* not count the id as removed and leaves its record in the persisted
\* store; and a command none of whose matching ids is in the index (also a
\* command repeated after a successful one, which matches nothing) reports
\* failure and leaves the index, the job store and the persisted store
\* exactly as before.
C24_RemoveAbsentChangesNothing ==
    [][act' = "remove_schedule" =>
          /\ \A id \in last'.matching \ DOMAIN schedules :
                 /\ id \notin last'.removed
                 /\ id \in DOMAIN file'
                 /\ file'[id] = file[id]
          /\ (last'.matching \cap DOMAIN schedules = {}) =>
                 /\ ~last'.ok
                 /\ schedules' = schedules
                 /\ jobs' = jobs
                 /\ file' = file]_vars

\* a remove_schedule command has just matched a stored rule that is not in
\* the index, while another rule is indexed and armed: the command reported
\* failure and the rule is still stored
C24_Witness ==
    /\ act = "remove_schedule"
    /\ last.matching # {}
    /\ last.matching \cap DOMAIN last.before = {}
    /\ ~last.ok
    /\ last.matching \subseteq GetSchedules(file)
    /\ DOMAIN schedules # {}
    /\ DOMAIN jobs # {}

\* C25: for each job key at most one invocation of its callback is in
\* progress at any time: when an occurrence of a job is due while the
\* invocation of an earlier occurrence has not returned, no second
\* invocation of that job is started.
C25_OneInvocationPerJob ==
    \A e1, e2 \in inflight : e1.job_id = e2.job_id => e1 = e2

\* the clock has just reached an instant at which a job was due, the
\* invocation of an earlier occurrence of that job is still in progress,
\* and no invocation was started for this instant
C25_Witness ==
    /\ act = "tick"
    /\ \E e \in inflight :
           /\ e.run_time # now
           /\ e.job_id \in DOMAIN jobs
           /\ TriggerMatches(jobs[e.job_id], now)
           /\ \A f \in inflight : f.job_id = e.job_id => f.run_time # now

\* C26: a call of SlowmodeScheduler.stop() does not interrupt the callbacks
\* in flight (they stay in progress until they complete or fail), and once
\* stop() has completed no activate or restore callback is started.
C26_StopEndsFiringsOnly ==
    [][/\ act' = "stop" => inflight' = inflight
       /\ ~running => inflight' \subseteq inflight]_vars

\* stop() has just been called on the running scheduler while a callback
\* was in flight, and the callback has been cancelled
C26_Witness ==
    /\ act = "stop"
    /\ last.ok
    /\ last.cancelled # {}
    /\ inflight = {}
    /\ ~running

=============================================================================
